---- MODULE Spec2Model ----
(***************************************************************************)
(* LS-8 emulator core (src/project/ls8/cpu.js): the CPU class, its         *)
(* fetch-decode-execute cycle tick(), the ALU, the flag register and the   *)
(* stack helpers, driven by the clock started with startClock().           *)
(*                                                                         *)
(* The RAM object handed to the constructor is an external collaborator    *)
(* whose code is not part of the sources; it is modelled from the          *)
(* specification: a fixed-size flat array of MemSize cells, zero after     *)
(* construction, whose behaviour on an out-of-range address or on a value  *)
(* that is not a byte is undefined (modelled as a choice of outcomes).     *)
(***************************************************************************)
EXTENDS Integers, Sequences, FiniteSets, TLC

VARIABLES
    reg,      \* this.reg[0..7], the general-purpose registers
    PC,       \* this.reg.PC
    IR,       \* this.reg.IR
    FL,       \* this.reg.FL
    ram,      \* the cells of this.ram
    clock,    \* this.clock: "unset", "running", "stopped", or "crashed"
              \* when an exception escaped the timer callback
    out,      \* lines written by console.log
    err,      \* reports written by console.error
    program,  \* the byte sequence the loader poked (history)
    hist      \* one record per executed tick: the state it started from,
              \* what it fetched and the handler it dispatched to (history)

vars == <<reg, PC, IR, FL, ram, clock, out, err, program, hist>>

----------------------------------------------------------------------------
(* Constants of cpu.js *)

HLT == 1
ADD == 168
LDI == 153
MUL == 170
PRN == 67
PUSH == 77
POP == 76
CMP == 160
JEQ == 81
JMP == 80
JNE == 82

SP == 7

FL_EQ == 1
FL_GT == 2
FL_LT == 4

\* The LS-8 encoding of CALL (0b01001000).  cpu.js has a CALL handler but
\* defines no CALL opcode constant.
CALL == 72

\* What a handler that returns nothing hands back to tick(), and what a
\* handler that returns the number v hands back
Undefined == << >>

Returned(v) == <<v>>

----------------------------------------------------------------------------
(* Bounds of the model *)

\* Number of cells of the RAM the host constructs
MemSize == 16

\* Immediate values used by the generated programs
Imm == {0, 5, 200}

\* Registers used by the generated three-instruction programs
Regs3 == {0, 1, 7}

\* Jump targets pre-set by the host in the compare-and-jump scenario
Targets == {13}

\* What an out-of-range read can deliver when the host does not trap it
Unspecified == {0, 1}

----------------------------------------------------------------------------
(* JavaScript operators on non-negative integers *)

RECURSIVE BitAnd(_, _)
BitAnd(x, y) ==
    IF x = 0 \/ y = 0 THEN 0
    ELSE (x % 2) * (y % 2) + 2 * BitAnd(x \div 2, y \div 2)

RECURSIVE BitOr(_, _)
BitOr(x, y) ==
    IF x = 0 THEN y
    ELSE IF y = 0 THEN x
    ELSE (IF x % 2 = 1 \/ y % 2 = 1 THEN 1 ELSE 0)
         + 2 * BitOr(x \div 2, y \div 2)

\* x & (~y)
BitAndNot(x, y) == x - BitAnd(x, y)

ShiftLeft(x, n) == x * (2 ^ n)

ShiftRight(x, n) == x \div (2 ^ n)

----------------------------------------------------------------------------
(* The RAM collaborator *)

Addr == 0 .. (MemSize - 1)

Byte == 0 .. 255

RegIdx == 0 .. 7

InRange(a) == a \in Addr

\* ram.read(a): the values the read can return
ReadVals(a) == IF InRange(a) THEN {ram[a]} ELSE Unspecified

\* ram.write(a, v) on memory m: the memories the write can leave
WriteVals(m, a, v) ==
    IF ~InRange(a) THEN {m}
    ELSE IF v \in Byte THEN {[m EXCEPT ![a] = v]}
    ELSE {[m EXCEPT ![a] = v], [m EXCEPT ![a] = v % 256]}

----------------------------------------------------------------------------
(* CPU: dispatch table, flags and ALU *)

\* setupBranchTable(): opcode byte -> handler.  CALL has no entry.
branchTable ==
    (ADD :> "ADD") @@ (CMP :> "CMP") @@ (HLT :> "HLT") @@ (JEQ :> "JEQ") @@
    (JMP :> "JMP") @@ (JNE :> "JNE") @@ (LDI :> "LDI") @@ (MUL :> "MUL") @@
    (POP :> "POP") @@ (PRN :> "PRN") @@ (PUSH :> "PUSH")

\* setFlag that sets the asserted flag and never clears one
setFlag_noClear(fl, flag, value) ==
    IF value THEN BitOr(fl, flag) ELSE fl

\* setFlag(flag, value) applied to the flag register fl
setFlag(fl, flag, value) ==
    IF value THEN BitOr(fl, flag) ELSE BitAndNot(fl, flag)

\* getFlag(f) applied to the flag register fl: (FL & (1 << f)) >> f
getFlag(fl, f) == ShiftRight(BitAnd(fl, ShiftLeft(1, f)), f)

\* alu whose ADD case lacks its break and goes on to set the flags
alu_addFallsThrough(op, regA, regB) ==
    CASE op = "MUL" ->
           [reg |-> [reg EXCEPT ![regA] = reg[regA] * reg[regB]], FL |-> FL]
      [] op = "ADD" ->
           LET r  == [reg EXCEPT ![regA] = reg[regA] + reg[regB]]
               f1 == setFlag(FL, FL_EQ, r[regA] = r[regB])
               f2 == setFlag(f1, FL_GT, r[regA] > r[regB])
               f3 == setFlag(f2, FL_LT, r[regA] < r[regB])
           IN  [reg |-> r, FL |-> f3]
      [] op = "AND" ->
           [reg |-> [reg EXCEPT ![regA] = BitAnd(reg[regA], reg[regB])],
            FL |-> FL]
      [] op = "CMP" ->
           LET f1 == setFlag(FL, FL_EQ, reg[regA] = reg[regB])
               f2 == setFlag(f1, FL_GT, reg[regA] > reg[regB])
               f3 == setFlag(f2, FL_LT, reg[regA] < reg[regB])
           IN  [reg |-> reg, FL |-> f3]
      [] OTHER -> [reg |-> reg, FL |-> FL]

\* alu(op, regA, regB): the registers and the flag register it leaves
alu(op, regA, regB) ==
    CASE op = "MUL" ->
           [reg |-> [reg EXCEPT ![regA] = reg[regA] * reg[regB]], FL |-> FL]
      [] op = "ADD" ->
           [reg |-> [reg EXCEPT ![regA] = reg[regA] + reg[regB]], FL |-> FL]
      [] op = "AND" ->
           [reg |-> [reg EXCEPT ![regA] = BitAnd(reg[regA], reg[regB])],
            FL |-> FL]
      [] op = "CMP" ->
           LET f1 == setFlag(FL, FL_EQ, reg[regA] = reg[regB])
               f2 == setFlag(f1, FL_GT, reg[regA] > reg[regB])
               f3 == setFlag(f2, FL_LT, reg[regA] < reg[regB])
           IN  [reg |-> reg, FL |-> f3]
      [] OTHER -> [reg |-> reg, FL |-> FL]

----------------------------------------------------------------------------
(* CPU: instruction handlers.  Each yields the set of outcomes of         *)
(* handler.call(this, operandA, operandB) in the current state: the       *)
(* fields it leaves, the value it returns, and whether a memory access    *)
(* was trapped by the host.  A handler whose register operand is not a    *)
(* register index has no outcome in this model.                           *)

Outcome(r, f, m, o, c, ret, trap) ==
    [reg |-> r, FL |-> f, ram |-> m, out |-> o, clock |-> c,
     ret |-> ret, trap |-> trap]

\* stopClock()
stopClock == "stopped"

\* pushHelper(value): the registers and memories it can leave
pushHelper(value) ==
    LET r == [reg EXCEPT ![SP] = reg[SP] - 1] IN
    IF InRange(r[SP])
    THEN {[reg |-> r, ram |-> m, trap |-> FALSE] :
              m \in WriteVals(ram, r[SP], value)}
    ELSE {[reg |-> r, ram |-> ram, trap |-> t] : t \in BOOLEAN}

\* popHelper that reads the top of the stack and leaves SP where it was
popHelper_noIncrement ==
    {[reg |-> reg, val |-> v, trap |-> FALSE] : v \in ReadVals(reg[SP])}
    \cup (IF InRange(reg[SP]) THEN {}
          ELSE {[reg |-> reg, val |-> 0, trap |-> TRUE]})

\* popHelper(): the registers it can leave and the values it can return
popHelper ==
    LET r == [reg EXCEPT ![SP] = reg[SP] + 1] IN
    {[reg |-> r, val |-> v, trap |-> FALSE] : v \in ReadVals(reg[SP])}
    \cup (IF InRange(reg[SP]) THEN {}
          ELSE {[reg |-> reg, val |-> 0, trap |-> TRUE]})

CPU_ADD(regA, regB) ==
    IF regA \in RegIdx /\ regB \in RegIdx
    THEN LET x == alu("ADD", regA, regB)
         IN  {Outcome(x.reg, x.FL, ram, out, clock, Undefined, FALSE)}
    ELSE {}

CPU_CALL(regNum) ==
    IF regNum \in RegIdx
    THEN {Outcome(p.reg, FL, p.ram, out, clock,
                  Returned(p.reg[regNum]), p.trap) :
              p \in pushHelper(PC + 2)}
    ELSE {}

CPU_CMP(regA, regB) ==
    IF regA \in RegIdx /\ regB \in RegIdx
    THEN LET x == alu("CMP", regA, regB)
         IN  {Outcome(x.reg, x.FL, ram, out, clock, Undefined, FALSE)}
    ELSE {}

\* HLT that returns without stopping the clock
CPU_HLT_noStop == {Outcome(reg, FL, ram, out, clock, Undefined, FALSE)}

CPU_HLT == {Outcome(reg, FL, ram, out, stopClock, Undefined, FALSE)}

CPU_JEQ(regNum) ==
    IF getFlag(FL, FL_EQ) # 0
    THEN IF regNum \in RegIdx
         THEN {Outcome(reg, FL, ram, out, clock,
                       Returned(reg[regNum]), FALSE)}
         ELSE {}
    ELSE {Outcome(reg, FL, ram, out, clock, Undefined, FALSE)}

CPU_JMP(regNum) ==
    IF regNum \in RegIdx
    THEN {Outcome(reg, FL, ram, out, clock, Returned(reg[regNum]), FALSE)}
    ELSE {}

CPU_JNE(regNum) ==
    IF getFlag(FL, FL_EQ) = 0
    THEN IF regNum \in RegIdx
         THEN {Outcome(reg, FL, ram, out, clock,
                       Returned(reg[regNum]), FALSE)}
         ELSE {}
    ELSE {Outcome(reg, FL, ram, out, clock, Undefined, FALSE)}

\* LDI that stores its first operand instead of its second
CPU_LDI_wrongOperand(regNum, value) ==
    IF regNum \in RegIdx
    THEN {Outcome([reg EXCEPT ![regNum] = regNum], FL, ram, out, clock,
                  Undefined, FALSE)}
    ELSE {}

CPU_LDI(regNum, value) ==
    IF regNum \in RegIdx
    THEN {Outcome([reg EXCEPT ![regNum] = value], FL, ram, out, clock,
                  Undefined, FALSE)}
    ELSE {}

CPU_MUL(regA, regB) ==
    IF regA \in RegIdx /\ regB \in RegIdx
    THEN LET x == alu("MUL", regA, regB)
         IN  {Outcome(x.reg, x.FL, ram, out, clock, Undefined, FALSE)}
    ELSE {}

CPU_POP(regNum) ==
    IF regNum \in RegIdx
    THEN {Outcome(IF p.trap THEN p.reg
                  ELSE [p.reg EXCEPT ![regNum] = p.val],
                  FL, ram, out, clock, Undefined, p.trap) :
              p \in popHelper}
    ELSE {}

\* PRN that prints the register number instead of the register's value
CPU_PRN_printsIndex(regA) ==
    IF regA \in RegIdx
    THEN {Outcome(reg, FL, ram, Append(out, regA), clock, Undefined, FALSE)}
    ELSE {}

CPU_PRN(regA) ==
    IF regA \in RegIdx
    THEN {Outcome(reg, FL, ram, Append(out, reg[regA]), clock,
                  Undefined, FALSE)}
    ELSE {}

CPU_PUSH(regNum) ==
    IF regNum \in RegIdx
    THEN {Outcome(p.reg, FL, p.ram, out, clock, Undefined, p.trap) :
              p \in pushHelper(reg[regNum])}
    ELSE {}

\* handler.call(this, operandA, operandB)
Exec(h, a, b) ==
    CASE h = "ADD"  -> CPU_ADD(a, b)
      [] h = "CALL" -> CPU_CALL(a)
      [] h = "CMP"  -> CPU_CMP(a, b)
      [] h = "HLT"  -> CPU_HLT
      [] h = "JEQ"  -> CPU_JEQ(a)
      [] h = "JMP"  -> CPU_JMP(a)
      [] h = "JNE"  -> CPU_JNE(a)
      [] h = "LDI"  -> CPU_LDI(a, b)
      [] h = "MUL"  -> CPU_MUL(a, b)
      [] h = "POP"  -> CPU_POP(a)
      [] h = "PRN"  -> CPU_PRN(a)
      [] h = "PUSH" -> CPU_PUSH(a)

----------------------------------------------------------------------------
(* Programs the loader places at address 0 *)

RECURSIVE Flatten(_)
Flatten(ss) == IF ss = << >> THEN << >> ELSE Head(ss) \o Flatten(Tail(ss))

LoadImm(R) == {<<LDI, r, v>> : r \in R, v \in Imm}

\* Every instruction over the registers R, the byte 0 and the CALL byte
Instr(R) ==
    LoadImm(R)
    \cup {<<op, ra, rb>> : op \in {ADD, MUL, CMP}, ra \in R, rb \in R}
    \cup {<<op, r>> : op \in {PRN, PUSH, POP, JMP, JEQ, JNE, CALL}, r \in R}
    \cup {<<HLT>>, <<0>>}

C1Program ==
    Flatten(<< <<LDI, 0, 5>>, <<LDI, 1, 3>>, <<ADD, 0, 1>>, <<PRN, 0>>,
               <<HLT>> >>)

\* LDI R0,4; LDI R1,4; CMP R0,R1; JEQ R2; PRN R0; HLT (the HLT at 13)
C10Program ==
    Flatten(<< <<LDI, 0, 4>>, <<LDI, 1, 4>>, <<CMP, 0, 1>>, <<JEQ, 2>>,
               <<PRN, 0>>, <<HLT>> >>)

\* The empty-stack top the stack programs load into R7
StackTop == MemSize - 1

\* LDI R7,StackTop; LDI r,v; PUSH r; POP r2
StackPrograms ==
    {Flatten(<< <<LDI, SP, StackTop>>, <<LDI, r, v>>, <<PUSH, r>>,
                <<POP, r2>> >>) :
        r \in RegIdx, r2 \in RegIdx, v \in {5, 200}}

\* LDI R7,StackTop; LDI R0,200; ADD R0,R0 or MUL R0,R0; PUSH R0; POP R1:
\* the pushed value is wider than a byte
WidePrograms ==
    {Flatten(<< <<LDI, SP, StackTop>>, <<LDI, 0, 200>>, <<op, 0, 0>>,
                <<PUSH, 0>>, <<POP, 1>> >>) : op \in {ADD, MUL}}

\* LDI R7,MemSize; LDI R1,200; PUSH R1; PUSH R0; POP r; POP r2: two values
\* on a stack that occupies the two highest addresses
DeepStackPrograms ==
    {Flatten(<< <<LDI, SP, MemSize>>, <<LDI, 1, 200>>, <<PUSH, 1>>,
                <<PUSH, 0>>, <<POP, r>>, <<POP, r2>> >>) :
        r \in {0, 1}, r2 \in {0, 1}}

\* n bytes of instructions without effect on the registers: PRN R0
\* repeated, after one LDI R0,0 when n is odd
RECURSIVE Pad(_)
Pad(n) ==
    IF n <= 0 THEN << >>
    ELSE IF n % 2 = 1 THEN <<LDI, 0, 0>> \o Pad(n - 3)
    ELSE <<PRN, 0>> \o Pad(n - 2)

\* Programs that fill the memory: execution runs off its end, or the last
\* byte is an HLT whose operand bytes lie outside
EdgePrograms == {Pad(MemSize), Pad(MemSize - 1) \o <<HLT>>}

Programs ==
    Instr(RegIdx)
    \cup {i \o j : i \in Instr(Regs3), j \in Instr(Regs3)}
    \cup {l \o i \o j : l \in LoadImm(Regs3), i \in Instr(Regs3),
                        j \in Instr(Regs3)}
    \cup StackPrograms
    \cup WidePrograms
    \cup DeepStackPrograms
    \cup EdgePrograms
    \cup {C1Program}

\* What the host sets up before starting the clock: the program, and the
\* value it stores in R2 (0 when it leaves the register alone)
Setups ==
    {[prog |-> p, r2 |-> 0] : p \in Programs}
    \cup {[prog |-> C10Program, r2 |-> t] : t \in Targets}

----------------------------------------------------------------------------
(* CPU: construction, loading, clock *)

\* new CPU(ram) on a freshly constructed RAM
Init ==
    /\ reg = [i \in RegIdx |-> 0]
    /\ PC = 0
    /\ IR = 0
    /\ FL = 0
    /\ ram = [a \in Addr |-> 0]
    /\ clock = "unset"
    /\ out = << >>
    /\ err = << >>
    /\ program = << >>
    /\ hist = << >>

\* poke(address, value): ram.write(address, value) of a byte in range
poke(m, address, value) == [m EXCEPT ![address] = value]

RECURSIVE PokeAll(_, _, _)
PokeAll(m, address, bytes) ==
    IF bytes = << >> THEN m
    ELSE PokeAll(poke(m, address, Head(bytes)), address + 1, Tail(bytes))

\* The host loads a program with poke() and may pre-set R2
Load ==
    /\ clock = "unset"
    /\ program = << >>
    /\ \E s \in Setups :
          /\ Len(s.prog) <= MemSize
          /\ ram' = PokeAll(ram, 0, s.prog)
          /\ reg' = [reg EXCEPT ![2] = s.r2]
          /\ program' = s.prog
    /\ UNCHANGED <<PC, IR, FL, clock, out, err, hist>>

\* startClock()
startClock ==
    /\ clock = "unset"
    /\ clock' = "running"
    /\ UNCHANGED <<reg, PC, IR, FL, ram, out, err, program, hist>>

----------------------------------------------------------------------------
(* CPU: tick() *)

\* The fetched byte's handler, if the table has one
Mapped(ir) == ir \in DOMAIN branchTable

\* (IR >> 6) & 0b00000011
OperandCount(ir) == BitAnd(ShiftRight(ir, 6), 3)

\* The update without the one-slot adjustment for the opcode byte
UpdatePC_noSlot(pc, ir, nextPc) ==
    IF nextPc = Undefined
    THEN [PC |-> pc + OperandCount(ir), thrown |-> FALSE]
    ELSE [PC |-> pc, thrown |-> TRUE]

\* The update that steps over the opcode byte only
UpdatePC_plusOne(pc, ir, nextPc) ==
    IF nextPc = Undefined
    THEN [PC |-> pc + 1, thrown |-> FALSE]
    ELSE [PC |-> pc, thrown |-> TRUE]

\* The program-counter update at the end of tick(): the new PC, and
\* whether evaluating the update threw (ReferenceError: nextPC)
UpdatePC(pc, ir, nextPc) ==
    IF nextPc = Undefined
    THEN [PC |-> pc + (OperandCount(ir) + 1), thrown |-> FALSE]
    ELSE [PC |-> pc, thrown |-> TRUE]

\* The history record of the tick that is being executed
Cycle(ir, a, b, h) ==
    [pc |-> PC, ir |-> ir, a |-> a, b |-> b, h |-> h, reg |-> reg,
     FL |-> FL, ram |-> ram]

\* tick() that reports an opcode without a handler and keeps the clock
tickInvalid_noStop ==
    /\ clock = "running"
    /\ \E ir \in ReadVals(PC) :
          /\ ~Mapped(ir)
          /\ IR' = ir
          /\ err' = Append(err, <<"Unknown opcode", ir>>)
          /\ hist' = Append(hist, Cycle(ir, 0, 0, "invalid"))
    /\ UNCHANGED <<reg, PC, FL, ram, out, program, clock>>

\* tick() on an opcode without a handler
tickInvalid ==
    /\ clock = "running"
    /\ \E ir \in ReadVals(PC) :
          /\ ~Mapped(ir)
          /\ IR' = ir
          /\ err' = Append(err, <<"Unknown opcode", ir>>)
          /\ clock' = stopClock
          /\ hist' = Append(hist, Cycle(ir, 0, 0, "invalid"))
    /\ UNCHANGED <<reg, PC, FL, ram, out, program>>

\* tick() dispatching to the handler named h, no memory access trapped
tickRun(h) ==
    /\ clock = "running"
    /\ \E ir \in ReadVals(PC), a \in ReadVals(PC + 1), b \in ReadVals(PC + 2) :
          /\ Mapped(ir)
          /\ branchTable[ir] = h
          /\ \E o \in Exec(h, a, b) :
                LET u == UpdatePC(PC, ir, o.ret) IN
                /\ ~o.trap
                /\ IR' = ir
                /\ reg' = o.reg
                /\ FL' = o.FL
                /\ ram' = o.ram
                /\ out' = o.out
                /\ PC' = u.PC
                /\ clock' = IF u.thrown THEN "crashed" ELSE o.clock
                /\ hist' = Append(hist, Cycle(ir, a, b, h))
    /\ UNCHANGED <<err, program>>

\* tick() in which the host traps an out-of-range memory access: at the
\* fetch, at the operand fetch, or inside the handler
tickTrap ==
    /\ clock = "running"
    /\ clock' = "crashed"
    /\ \/ /\ ~InRange(PC)
          /\ hist' = Append(hist, Cycle(IR, 0, 0, "trap"))
          /\ UNCHANGED <<reg, IR, ram>>
       \/ \E ir \in ReadVals(PC) :
             /\ Mapped(ir)
             /\ ~InRange(PC + 1) \/ ~InRange(PC + 2)
             /\ IR' = ir
             /\ hist' = Append(hist, Cycle(ir, 0, 0, "trap"))
             /\ UNCHANGED <<reg, ram>>
       \/ \E ir \in ReadVals(PC), a \in ReadVals(PC + 1),
             b \in ReadVals(PC + 2) :
             /\ Mapped(ir)
             /\ \E o \in Exec(branchTable[ir], a, b) :
                   /\ o.trap
                   /\ IR' = ir
                   /\ reg' = o.reg
                   /\ ram' = o.ram
                   /\ hist' = Append(hist, Cycle(ir, a, b, "trap"))
    /\ UNCHANGED <<PC, FL, out, err, program>>

tickADD == tickRun("ADD")
tickCMP == tickRun("CMP")
tickHLT == tickRun("HLT")
tickJEQ == tickRun("JEQ")
tickJMP == tickRun("JMP")
tickJNE == tickRun("JNE")
tickLDI == tickRun("LDI")
tickMUL == tickRun("MUL")
tickPOP == tickRun("POP")
tickPRN == tickRun("PRN")
tickPUSH == tickRun("PUSH")

\* One firing of the interval timer
tick ==
    \/ tickInvalid
    \/ tickTrap
    \/ tickADD
    \/ tickCMP
    \/ tickHLT
    \/ tickJEQ
    \/ tickJMP
    \/ tickJNE
    \/ tickLDI
    \/ tickMUL
    \/ tickPOP
    \/ tickPRN
    \/ tickPUSH

Next == Load \/ startClock \/ tick

Spec == Init /\ [][Next]_vars

\* setInterval keeps firing the callback while the clock runs
FairSpec == Spec /\ WF_vars(tick)

----------------------------------------------------------------------------
(* The earlier engine version (src/unnamed/part_000) *)

\* setupBranchTable() of the earlier version
branchTable_v1 ==
    (HLT :> "HLT") @@ (ADD :> "ADD") @@ (LDI :> "LDI") @@ (MUL :> "MUL")
    @@ (PRN :> "PRN")

\* this.mem, which the operand fetch reads through: the constructor
\* assigns this.ram and never this.mem
mem_v1 == Undefined

\* tick() on an opcode without a handler: the report is made, then the
\* bare name stopClock (not this.stopClock) throws ReferenceError and the
\* uncaught error ends the run
tickInvalid_v1 ==
    /\ clock = "running"
    /\ \E ir \in ReadVals(PC) :
          /\ ir \notin DOMAIN branchTable_v1
          /\ IR' = ir
          /\ err' = Append(err, <<"Unknown opcode", ir>>)
          /\ clock' = "crashed"
          /\ hist' = Append(hist, Cycle(ir, 0, 0, "invalid"))
    /\ UNCHANGED <<reg, PC, FL, ram, out, program>>

\* tick() on an opcode with a handler: this.mem.read(PC + 1) throws
\* TypeError before the second operand fetch, the dispatch and the PC
\* update PC += (IR >> 6) & 3 are reached
tickMapped_v1 ==
    /\ clock = "running"
    /\ mem_v1 = Undefined
    /\ \E ir \in ReadVals(PC) :
          /\ ir \in DOMAIN branchTable_v1
          /\ IR' = ir
          /\ clock' = "crashed"
          /\ hist' = Append(hist, Cycle(ir, 0, 0, "throw"))
    /\ UNCHANGED <<reg, PC, FL, ram, out, err, program>>

\* One firing of the interval timer in the earlier version
tick_v1 == tickInvalid_v1 \/ tickMapped_v1

Next_v1 == Load \/ startClock \/ tick_v1

Spec_v1 == Init /\ [][Next_v1]_vars

TypeOK ==
    /\ clock \in {"unset", "running", "stopped", "crashed"}
    /\ PC \in Nat
    /\ DOMAIN reg = RegIdx
    /\ DOMAIN ram = Addr

----------------------------------------------------------------------------
(* Reading the history *)

Ticks == 1 .. Len(hist)

Last == hist[Len(hist)]

\* The state the i-th tick left: the state the next tick started from, or
\* the current state when it was the last one
PostReg(i) == IF i < Len(hist) THEN hist[i + 1].reg ELSE reg

PostFL(i) == IF i < Len(hist) THEN hist[i + 1].FL ELSE FL

PostPC(i) == IF i < Len(hist) THEN hist[i + 1].pc ELSE PC

PostRam(i) == IF i < Len(hist) THEN hist[i + 1].ram ELSE ram

\* The clock runs and the instruction at PC, with the operand bytes it
\* uses, lies inside the memory
Fetching(op) ==
    /\ clock = "running"
    /\ InRange(PC + 2)
    /\ ram[PC] = op

EQ(fl) == BitAnd(fl, FL_EQ) # 0

GT(fl) == BitAnd(fl, FL_GT) # 0

LT(fl) == BitAnd(fl, FL_LT) # 0

----------------------------------------------------------------------------
(* Properties *)

\* C1: with the program LDI R0,5; LDI R1,3; ADD R0,R1; PRN R0; HLT loaded
\* at address 0 and the clock started, the run eventually halts and the
\* output then holds exactly one line, the value 8.
C1_HaltsPrintingEight ==
    (program = C1Program /\ clock = "running")
        ~> (clock = "stopped" /\ out = <<8>>)

C1_Witness ==
    /\ program = C1Program
    /\ clock = "stopped"
    /\ out = <<8>>
    /\ Len(hist) = 5
    /\ Last.h = "HLT"

\* C2: whenever the byte at memory[PC] has no entry in the dispatch table,
\* the tick stops the clock and leaves PC at the address of that byte, and
\* once the engine was halted that way no later cycle runs.
C2_InvalidOpcodeHalts ==
    [][ /\ (clock = "running" /\ InRange(PC) /\ ~Mapped(ram[PC]))
            => (clock' = "stopped" /\ PC' = PC)
        /\ (clock = "stopped" /\ hist # << >> /\ Last.h = "invalid")
            => UNCHANGED <<clock, PC, hist>> ]_vars

C2_Witness ==
    /\ hist # << >>
    /\ Last.h = "invalid"
    /\ Len(hist) > 1
    /\ clock = "stopped"
    /\ PC = Last.pc
    /\ PC > 0
    /\ ram[PC] = Last.ir

\* C3: a tick executing JEQ r at address P sets PC to reg[r] if the EQ flag
\* is set and to P+2 otherwise; a tick executing JNE r at P sets PC to
\* reg[r] if the EQ flag is clear and to P+2 otherwise; GT and LT have no
\* influence.
C3_ConditionalJumps ==
    [][ \A r \in RegIdx :
          /\ (Fetching(JEQ) /\ ram[PC + 1] = r)
              => PC' = (IF EQ(FL) THEN reg[r] ELSE PC + 2)
          /\ (Fetching(JNE) /\ ram[PC + 1] = r)
              => PC' = (IF ~EQ(FL) THEN reg[r] ELSE PC + 2) ]_vars

\* C4: after CMP regA, regB exactly one of EQ, GT, LT is set and the other
\* two are cleared, whatever FL was before: EQ iff a = b, GT iff a > b,
\* LT iff a < b; and no general-purpose register is changed.
C4_CompareFlags ==
    [][ \A regA \in RegIdx, regB \in RegIdx :
          (Fetching(CMP) /\ ram[PC + 1] = regA /\ ram[PC + 2] = regB)
          => /\ EQ(FL') <=> reg[regA] = reg[regB]
             /\ GT(FL') <=> reg[regA] > reg[regB]
             /\ LT(FL') <=> reg[regA] < reg[regB]
             /\ reg' = reg ]_vars

C4_Witness ==
    /\ hist # << >>
    /\ Last.h = "CMP"
    /\ Last.FL = FL_GT
    /\ Last.reg[Last.a] < Last.reg[Last.b]
    /\ FL = FL_LT

\* C5: for registers regA, regB holding 8-bit values a, b, after
\* ADD regA, regB reg[regA] equals (a+b) mod 256, after MUL regA, regB
\* reg[regA] equals (a*b) mod 256, and reg[regB] still equals b.  (Stated
\* for two different registers.)
C5_ArithmeticWraps ==
    [][ \A regA \in RegIdx, regB \in RegIdx :
          (/\ regA # regB
           /\ reg[regA] \in Byte
           /\ reg[regB] \in Byte
           /\ clock = "running"
           /\ InRange(PC + 2)
           /\ ram[PC + 1] = regA
           /\ ram[PC + 2] = regB)
          => /\ ram[PC] = ADD
                 => /\ reg'[regA] = (reg[regA] + reg[regB]) % 256
                    /\ reg'[regB] = reg[regB]
             /\ ram[PC] = MUL
                 => /\ reg'[regA] = (reg[regA] * reg[regB]) % 256
                    /\ reg'[regB] = reg[regB] ]_vars

C7_CallPushesReturnAddress ==
    [][ \A regNum \in RegIdx :
          (/\ Fetching(CALL)
           /\ ram[PC + 1] = regNum
           /\ InRange(reg[SP] - 1))
          => /\ reg'[SP] = reg[SP] - 1
             /\ ram'[reg'[SP]] = PC + 2
             /\ PC' = reg[regNum] ]_vars

\* C8: for every register r and every value t held in reg[r], t = 0
\* included, a tick executing JMP r ends with PC = t.
C8_JumpSetsPC ==
    [][ \A r \in RegIdx :
          (Fetching(JMP) /\ ram[PC + 1] = r) => PC' = reg[r] ]_vars

\* C9: after a tick executing LDI r, v the register reg[r] equals v, every
\* other general-purpose register and FL are unchanged, and PC has
\* advanced by 3.
C9_LoadImmediate ==
    [][ \A r \in RegIdx :
          (Fetching(LDI) /\ ram[PC + 1] = r)
          => /\ reg' = [reg EXCEPT ![r] = ram[PC + 2]]
             /\ FL' = FL
             /\ PC' = PC + 3 ]_vars

C9_Witness ==
    /\ hist # << >>
    /\ Last.h = "LDI"
    /\ Last.b = 200
    /\ reg[Last.a] = 200
    /\ Last.reg[Last.a] = 5
    /\ FL # 0
    /\ PC = Last.pc + 3

\* C10: with LDI R0,4; LDI R1,4; CMP R0,R1; JEQ R2; ... loaded at address
\* 0 and R2 pre-set to a target address T, the EQ flag is set after the
\* third tick, PC = T after the fourth tick, and no instruction between
\* the JEQ and T is ever fetched.
C10_CompareThenJump ==
    program = C10Program
    => /\ Len(hist) >= 3 => EQ(PostFL(3))
       /\ Len(hist) >= 4 => PostPC(4) \in Targets
       /\ \A i \in Ticks : hist[i].pc \notin 11 .. 12

\* C11: in the state produced by constructing the CPU, registers 0..6, PC,
\* IR and FL are all zero and register 7 (SP) holds a high memory address,
\* the empty-stack top, so that the first PUSH writes to a valid address
\* below that top.
C11_ConstructedState ==
    (clock = "unset" /\ program = << >>)
    => /\ \A i \in 0 .. 6 : reg[i] = 0
       /\ PC = 0
       /\ IR = 0
       /\ FL = 0
       /\ reg[SP] > 0
       /\ InRange(reg[SP] - 1)

\* C12: with the clock started by startClock, a tick that executes HLT
\* stops the clock, and from then on no tick runs: registers, flags, memory
\* and output never change again.
C12_HaltIsTerminal ==
    [][ /\ Fetching(HLT) => clock' = "stopped"
        /\ (clock = "stopped" /\ hist # << >> /\ Last.h = "HLT")
            => UNCHANGED vars ]_vars

C12_Witness ==
    /\ clock = "stopped"
    /\ Len(hist) >= 2
    /\ Last.h = "HLT"
    /\ Last.pc > 0
    /\ PC = Last.pc + 1
    /\ reg[0] = 5

\* C13: the flag register is changed only by CMP: a tick that executes any
\* other instruction, or that fetches an invalid opcode, leaves FL exactly
\* as it was, so the flags persist until the next CMP.
C13_OnlyCompareWritesFlags ==
    [][ FL' # FL => (clock = "running" /\ InRange(PC) /\ ram[PC] = CMP) ]_vars

C13_Witness ==
    /\ hist # << >>
    /\ Last.h = "ADD"
    /\ Last.FL = FL_GT
    /\ FL = FL_GT
    /\ reg[Last.a] # Last.reg[Last.a]

\* C14: in every state reachable by ticks from the initial state, with the
\* memory holding only bytes, each of the eight general-purpose registers,
\* register 7 (SP) included, holds an integer in 0..255.
C14_RegistersAreBytes == \A i \in RegIdx : reg[i] \in Byte

\* The values the PRN ticks of the history h printed, in execution order
RECURSIVE Printed(_)
Printed(h) ==
    IF h = << >> THEN << >>
    ELSE LET l == h[Len(h)]
             front == Printed(SubSeq(h, 1, Len(h) - 1))
         IN  IF l.h = "PRN" THEN Append(front, l.reg[l.a]) ELSE front

\* C15: a tick executing PRN r appends exactly one line holding the current
\* value of reg[r] to the output and changes no general-purpose register,
\* flag or memory cell; nothing else writes to the output, and the output
\* lines appear in the order the PRN instructions were executed.
C15_PrintAppendsOneLine ==
    [][ /\ \A r \in RegIdx :
              (Fetching(PRN) /\ ram[PC + 1] = r)
              => /\ out' = Append(out, reg[r])
                 /\ reg' = reg
                 /\ FL' = FL
                 /\ ram' = ram
        /\ out' # out => (clock = "running" /\ InRange(PC) /\ ram[PC] = PRN)
        /\ out' = Printed(hist') ]_vars

C15_Witness ==
    /\ hist # << >>
    /\ Last.h = "PRN"
    /\ out = <<5, 0>>
    /\ reg[0] = 5
    /\ Last.a = 1

\* The values an error report carries after its message text
ReportArgs(e) == Tail(e)

\* C16: when tick() fetches an opcode with no dispatch-table entry, the
\* error report it emits contains both the offending opcode value and the
\* address (the PC value) at which that opcode was fetched.
C16_ReportNamesOpcodeAndAddress ==
    (hist # << >> /\ Last.h = "invalid")
    => /\ err # << >>
       /\ LET args == ReportArgs(err[Len(err)])
          IN  \E j \in 1 .. Len(args), k \in 1 .. Len(args) :
                  /\ j # k
                  /\ args[j] = Last.ir
                  /\ args[k] = Last.pc

\* Bytes an instruction occupies: the opcode and its operands
Width(op) ==
    CASE op = HLT -> 1
      [] op \in {PRN, PUSH, POP, JEQ, JNE} -> 2
      [] op \in {LDI, ADD, MUL, CMP} -> 3

\* C17: for every mapped instruction whose handler returns no jump target
\* (HLT, LDI, PRN, ADD, MUL, CMP, PUSH, POP, and JEQ/JNE when not taken)
\* fetched at address P, the tick ends with PC = P + ((IR >> 6) & 3) + 1:
\* P+1 for a 0-operand, P+2 for a 1-operand and P+3 for a 2-operand
\* instruction.
C17_DefaultAdvance ==
    [][ (/\ clock = "running"
         /\ InRange(PC + 2)
         /\ ram[PC] \in {HLT, LDI, PRN, ADD, MUL, CMP, PUSH, POP, JEQ, JNE}
         /\ clock' # "crashed")
        => /\ IR' = ram[PC]
           /\ PC' = PC + (BitAnd(ShiftRight(IR', 6), 3) + 1)
           /\ PC' = PC + Width(ram[PC]) ]_vars

C17_Witness ==
    /\ program = C1Program
    /\ Len(hist) = 5
    /\ hist[1].pc = 0
    /\ hist[2].pc = 3
    /\ hist[4].pc = 9
    /\ hist[5].pc = 11
    /\ PC = 12

\* C18: in the earlier engine version, a tick that fetches a mapped
\* instruction at address P completes its operand fetch and dispatch and
\* ends with PC = P + operand-count + 1, so that a 0-operand instruction
\* still advances PC by 1.
C18_EarlierVersionAdvance ==
    [][ (/\ clock = "running"
         /\ InRange(PC + 2)
         /\ ram[PC] \in DOMAIN branchTable_v1)
        => /\ clock' # "crashed"
           /\ PC' = PC + OperandCount(ram[PC]) + 1 ]_vars

\* C19: in every state reachable by any sequence of ticks from the initial
\* state, the flag register FL is one of 0 (no compare yet), 1 (EQ), 2 (GT)
\* or 4 (LT): no two flag bits are set together and no bit outside the
\* three flag bits is set.
C19_OneFlagAtMost == FL \in {0, FL_EQ, FL_GT, FL_LT}

C19_Witness ==
    /\ Len(hist) >= 2
    /\ Last.h = "CMP"
    /\ hist[Len(hist) - 1].h = "CMP"
    /\ Last.FL = FL_EQ
    /\ Last.reg[Last.a] > Last.reg[Last.b]
    /\ FL = FL_GT

\* C20: for every n >= 1 and registers other than register 7, executing n
\* PUSH instructions followed by n POP instructions with no other stack
\* access in between returns the pushed values in reverse (last-in
\* first-out) order, restores SP to its value before the first PUSH, and
\* changes no memory cell outside the n stack slots just below that SP
\* value.
C20_StackDiscipline ==
    \A i \in Ticks, n \in 1 .. Len(hist) :
        (/\ i + 2 * n - 1 <= Len(hist)
         /\ \A k \in 0 .. n - 1 :
               /\ hist[i + k].h = "PUSH"
               /\ hist[i + k].a \in 0 .. 6
               /\ hist[i + n + k].h = "POP"
               /\ hist[i + n + k].a \in 0 .. 6)
        => LET sp0 == hist[i].reg[SP]
               end == i + 2 * n - 1
           IN  /\ \A k \in 0 .. n - 1 :
                     LET pop  == i + n + k
                         push == i + n - 1 - k
                     IN  PostReg(pop)[hist[pop].a]
                             = hist[push].reg[hist[push].a]
               /\ PostReg(end)[SP] = sp0
               /\ \A c \in Addr :
                     (c < sp0 - n \/ c >= sp0)
                         => PostRam(end)[c] = hist[i].ram[c]

====
